---- MODULE Spec2Model ----
(***************************************************************************)
(* The TikTok collection-and-merge pipeline of the repository, in its      *)
(* three script variants:                                                  *)
(*   "s3"     src/src/tiktok_data_collect_s3.py   (Lambda, batched, S3)    *)
(*   "local"  src/src/tiktok_data_collect.py      (local, rolling window)  *)
(*   "legacy" src/tiktok_data_collect.py          (local, one-day window)  *)
(* Spec       is one run of a collector (the walker and its merges).       *)
(* SpecMerge  is a sequence of merge invocations on arbitrary batches.     *)
(* SpecRank   is fetch_top_comments applied to arbitrary comment feeds.    *)
(***************************************************************************)
EXTENDS Integers, Sequences, FiniteSets, TLC

\* ----------------------------------------------------------------- bounds
MaxCap == 3          \* largest REQUEST_CAP a run is configured with
MaxTarget == 2       \* largest VIDEOS_PER_TAG a run is configured with
MaxBatchSize == 2    \* largest BATCH_SIZE a run is configured with
MaxTs == 2           \* creation timestamps are 0..MaxTs
MaxBatch == 3        \* longest batch handed to a merge in SpecMerge
MaxMerges == 2       \* merge invocations per behaviour of SpecMerge
MaxTable == 2        \* longest persisted table SpecMerge starts from
MaxComments == 3     \* most comments a feed of SpecRank yields
MaxN == 3            \* largest n the ranker is called with in SpecRank

\* the video ids of the candidates, rows and tables
Ids == {"A", "B"}

Variants == {"s3", "local", "legacy"}

\* ------------------------------------------------------ program constants
\* recency cutoff of the local collector (now minus 365 days)
ONE_YEAR_AGO == 1
\* the one-day window of the legacy collector
TARGET_START == 1
TARGET_END == 1
\* fetch_top_comments(video, n=5)
TopN == 5
\* "if attempts % 20 == 0: await asyncio.sleep(10)": the longer pause every
\* 20 attempts, scaled to the attempt caps of the model
LongPauseEvery == 2

\* SEARCH_TERMS of each script (the long lists cut to their first two terms)
SEARCH_TERMS(v) ==
    IF v = "s3" THEN <<"tonerrecommendation", "serumreview">>
    ELSE IF v = "local" THEN <<"skincare", "makeup">>
    ELSE <<"beauty">>

VARIABLES
    variant,            \* which script runs
    cfg,                \* REQUEST_CAP, VIDEOS_PER_TAG, BATCH_SIZE of the run
    pc,                 \* the walker's position
    termIdx,            \* index of the current search term
    cur,                \* the candidate being processed
    row,                \* the row the last step emitted, if it emitted one
    attempts,           \* global attempt counter
    videos_processed,   \* per-term success counter
    rows,               \* in-memory batch
    elapsed_time_over,  \* last computed "elapsed_time > MAX_EXECUTION_TIME"
    timeUp,             \* the wall clock is past the deadline
    thumbs,             \* thumbnail storage: the ids with an artifact
    table,              \* the persisted table
    outcome,            \* what the run returned
    calls,              \* collaborator operations performed by the last step
    pulled,             \* candidates the feed has yielded in this run
    seen,               \* ids for which this run has emitted a row
    term_rows,          \* rows emitted while processing the current term
    total_processed,    \* rows emitted in this run
    start_ids,          \* ids in the persisted table when the run started
    merges,             \* merge invocations so far
    handed,             \* rows a run has handed to merge invocations so far
    tableBefore,        \* SpecMerge: the persisted table before the last merge
    lastBatch,          \* SpecMerge: rows handed to the last merge
    lastLoad,           \* SpecMerge: outcome of the last merge's load
    lastWrite,          \* SpecMerge: outcome of its write ("none": no write)
    lastReturn,         \* SpecMerge: what the last merge returned
    repeated,           \* SpecMerge: the last merge was given the batch of the
                        \* merge before it, and storage served both
    video_comments,     \* SpecRank: the comment feed given to the ranker
    want_n,             \* SpecRank: the n it is called with
    ranked,             \* SpecRank: what fetch_top_comments returned
    partial_write,      \* SpecMerge: the table's file is open for writing and
                        \* holds only a part of the table
    paced,              \* a pacing delay was taken since the last emitted row
    pause_due           \* the attempt counter reached a multiple of
                        \* LongPauseEvery and no longer pause was taken since

walkerVars == <<pc, termIdx, cur, row, attempts, videos_processed, rows,
                elapsed_time_over, timeUp, thumbs, outcome, calls, pulled,
                seen, term_rows, total_processed>>
historyVars == <<tableBefore, lastBatch, lastLoad, lastWrite, lastReturn,
                 repeated>>
mergeVars == <<table, merges, handed, historyVars>>
rankVars == <<video_comments, want_n, ranked>>
paceVars == <<paced, pause_due>>
vars == <<variant, cfg, start_ids, walkerVars, mergeVars, rankVars,
          partial_write, paceVars>>

\* ------------------------------------------------------------------- data
Row(id, tc) == [video_id |-> id, top_comments |-> tc]

NoVideo == [id |-> "none", posted_ts |-> 0, comment_count |-> 0]
NoRow == Row("none", <<>>)

\* what the remote feed can yield: id, creation time, reported comment count
Candidates == [id : Ids, posted_ts : 0..MaxTs, comment_count : 0..1]

Absent == [exists |-> FALSE, rows |-> <<>>]
Stored(rs) == [exists |-> TRUE, rows |-> rs]

IdsOf(rs) == {rs[i].video_id : i \in DOMAIN rs}

NoDuplicateIds(rs) ==
    \A i, j \in DOMAIN rs : rs[i].video_id = rs[j].video_id => i = j

IsPrefix(s, t) == Len(s) <= Len(t) /\ SubSeq(t, 1, Len(s)) = s

SeqsUpTo(S, n) == UNION {[1..k -> S] : k \in 0..n}

\* ------------------------------------------------------ the Comment Ranker
\* a comment record: ok = FALSE when reading its score or text raises
Comments == [score : 0..1, text : 1..2, ok : BOOLEAN]

\* TupleGreater as the order of comments.sort() without reverse=True
TupleGreater_Ascending(a, b) ==
    a.score < b.score \/ (a.score = b.score /\ a.text < b.text)

\* TupleGreater of a sort keyed on the score alone
TupleGreater_ScoreOnly(a, b) == a.score > b.score

\* (score, text) tuples compare as Python tuples do
TupleGreater(a, b) ==
    a.score > b.score \/ (a.score = b.score /\ a.text > b.text)

RECURSIVE InsertDesc(_, _)
InsertDesc(s, x) ==
    IF s = <<>> THEN <<x>>
    ELSE IF TupleGreater(x, Head(s)) THEN <<x>> \o s
    ELSE <<Head(s)>> \o InsertDesc(Tail(s), x)

\* comments.sort(reverse=True)
RECURSIVE SortReverse(_)
SortReverse(s) ==
    IF s = <<>> THEN <<>>
    ELSE InsertDesc(SortReverse(SubSeq(s, 1, Len(s) - 1)), s[Len(s)])

Texts(s) == [i \in DOMAIN s |-> s[i].text]

FirstN(s, n) == SubSeq(s, 1, IF Len(s) < n THEN Len(s) ELSE n)

\* fetch_top_comments of the s3 and local scripts: feed.items are the comments
\* the page yields, feed.raises says whether the feed then raises instead of
\* ending; a malformed record is skipped, a feed error keeps what was collected
FetchTopComments(feed, n) ==
    LET comments == SelectSeq(feed.items, LAMBDA c : c.ok)
    IN  IF comments # <<>> THEN FirstN(Texts(SortReverse(comments)), n)
        ELSE <<>>

\* fetch_top_comments of the legacy script: any exception returns []
FetchTopCommentsLegacy(feed, n) ==
    IF feed.raises \/ \E i \in DOMAIN feed.items : ~feed.items[i].ok
    THEN <<>>
    ELSE FirstN(Texts(SortReverse(feed.items)), n)

NoFeed == [items |-> <<>>, raises |-> FALSE]

\* the comment pages a run of the walker is given: the records the page
\* yields and whether the feed then raises instead of ending
WalkerCommentFeeds ==
    [items : {<<>>, <<[score |-> 1, text |-> 1, ok |-> TRUE]>>,
              <<[score |-> 1, text |-> 1, ok |-> FALSE]>>},
     raises : BOOLEAN]

\* ------------------------------------------------------ the Dataset Merger
LoadOutcomes == {"ok", "client_error", "exception"}
WriteOutcomes == {"ok", "fail"}

\* load_existing_parquet_from_s3: "ok" is the storage answering (the object
\* or NoSuchKey), "client_error" any other ClientError (returns None),
\* "exception" any other exception (propagates)
LoadExistingParquetFromS3(tbl, lo) ==
    IF lo = "exception" THEN [kind |-> "raise", rows |-> <<>>]
    ELSE IF lo = "ok" /\ tbl.exists THEN [kind |-> "df", rows |-> tbl.rows]
    ELSE [kind |-> "none", rows |-> <<>>]

\* save_parquet_to_s3: put_object replaces the object or fails
SaveParquetToS3(tbl, df, wo) == IF wo = "ok" THEN Stored(df) ELSE tbl

\* FilterNew with the isin filter left out
FilterNew_KeepAll(new_rows, existing_video_ids) == new_rows

\* new_df[~new_df['video_id'].isin(existing_video_ids)]
FilterNew(new_rows, existing_video_ids) ==
    SelectSeq(new_rows, LAMBDA r : r.video_id \notin existing_video_ids)

\* save_batch_to_s3(rows, batch_number)
SaveBatchToS3(tbl, new_rows, lo, wo) ==
    LET existing == LoadExistingParquetFromS3(tbl, lo)
    IN  IF existing.kind = "raise"
        THEN [table |-> tbl, ret |-> 0, calls |-> {"load"}, raised |-> FALSE]
        ELSE IF existing.kind = "df"
        THEN LET new_df == FilterNew(new_rows, IdsOf(existing.rows))
                 combined == existing.rows \o new_df
             IN  IF Len(new_df) > 0
                 THEN [table |-> SaveParquetToS3(tbl, combined, wo),
                       ret |-> IF wo = "ok" THEN Len(combined)
                               ELSE Len(existing.rows),
                       calls |-> {"load", "write"}, raised |-> FALSE]
                 ELSE [table |-> tbl, ret |-> Len(existing.rows),
                       calls |-> {"load"}, raised |-> FALSE]
        ELSE [table |-> SaveParquetToS3(tbl, new_rows, wo),
              ret |-> IF wo = "ok" THEN Len(new_rows) ELSE 0,
              calls |-> {"load", "write"}, raised |-> FALSE]

\* the end-of-run merge of the local script's main; lo = "exception" is
\* read_parquet raising, wo = "fail" is to_parquet raising (both propagate)
MainMerge(tbl, new_rows, lo, wo) ==
    IF tbl.exists
    THEN IF lo # "ok"
         THEN [table |-> tbl, ret |-> 0, calls |-> {"load"}, raised |-> TRUE]
         ELSE LET new_df == FilterNew(new_rows, IdsOf(tbl.rows))
                  combined == tbl.rows \o new_df
              IN  IF Len(new_df) > 0
                  THEN [table |-> IF wo = "ok" THEN Stored(combined) ELSE tbl,
                        ret |-> Len(combined),
                        calls |-> {"load", "write"}, raised |-> wo # "ok"]
                  ELSE [table |-> tbl, ret |-> Len(tbl.rows),
                        calls |-> {"load"}, raised |-> FALSE]
    ELSE [table |-> IF wo = "ok" THEN Stored(new_rows) ELSE tbl,
          ret |-> Len(new_rows), calls |-> {"write"}, raised |-> wo # "ok"]

\* the end of the legacy script's main: the rows are written to the day's
\* file, replacing it
LegacySave(tbl, new_rows, lo, wo) ==
    [table |-> IF wo = "ok" THEN Stored(new_rows) ELSE tbl,
     ret |-> Len(new_rows), calls |-> {"write"}, raised |-> wo # "ok"]

\* the merge a script performs
Merge(v, tbl, new_rows, lo, wo) ==
    IF v = "s3" THEN SaveBatchToS3(tbl, new_rows, lo, wo)
    ELSE IF v = "local" THEN MainMerge(tbl, new_rows, lo, wo)
    ELSE LegacySave(tbl, new_rows, lo, wo)

\* the storage outcomes a script's merge can meet
MergeLoadOutcomes(v) ==
    IF v = "s3" THEN LoadOutcomes
    ELSE IF v = "local" THEN {"ok", "exception"} ELSE {"ok"}

\* whether the merge writes the table's file in place: to_parquet(parquet_name)
\* opens the file itself and writes into it, put_object replaces the object
\* in one step
WritesInPlace(v, tbl, new_rows, lo, wo) ==
    v # "s3" /\ wo = "ok" /\ "write" \in Merge(v, tbl, new_rows, lo, wo).calls

\* a merge invocation made by a run
DoMerge(new_rows, lo, wo) ==
    /\ table' = Merge(variant, table, new_rows, lo, wo).table
    /\ merges' = merges + 1
    /\ handed' = handed + Len(new_rows)
    /\ UNCHANGED historyVars

\* a merge invocation of SpecMerge, which also records what it was given
\* and what it answered
DoMergeRecorded(new_rows, lo, wo) ==
    LET res == Merge(variant, table, new_rows, lo, wo)
    IN  /\ table' = res.table
        /\ merges' = merges + 1
        /\ UNCHANGED handed
        /\ tableBefore' = table
        /\ lastBatch' = new_rows
        /\ lastLoad' = IF "load" \in res.calls THEN lo ELSE "none"
        /\ lastWrite' = IF "write" \in res.calls THEN wo ELSE "none"
        /\ lastReturn' = res.ret
        /\ repeated' = /\ merges >= 1
                       /\ new_rows = lastBatch
                       /\ lastLoad \in {"ok", "none"}
                       /\ lastWrite \in {"ok", "none"}
                       /\ lo = "ok"
                       /\ wo = "ok"

\* ---------------------------------------------------------- the Feed Walker
Configs(v) ==
    [REQUEST_CAP : 1..MaxCap, VIDEOS_PER_TAG : 0..MaxTarget,
     BATCH_SIZE : IF v = "s3" THEN 1..MaxBatchSize ELSE {1}]

\* the size hint given to tag.videos(count=...)
FeedCount(v, c) ==
    IF v = "s3" THEN c.VIDEOS_PER_TAG * 2
    ELSE IF v = "local" THEN c.VIDEOS_PER_TAG * 10
    ELSE c.VIDEOS_PER_TAG

\* what awaiting the next video of the feed can do; a feed asked for no
\* video yields none
FeedOutcomes(v, c) ==
    IF FeedCount(v, c) > 0 THEN {"yield", "exhausted", "raise"}
    ELSE {"exhausted", "raise"}

\* the timestamp filter of each script (the s3 script has none)
PassesTimestampFilter(v, video) ==
    IF v = "s3" THEN TRUE
    ELSE IF v = "local" THEN ~(video.posted_ts < ONE_YEAR_AGO)
    ELSE TARGET_START <= video.posted_ts /\ video.posted_ts <= TARGET_END

Goto(p, t) == [pc |-> p, termIdx |-> t]

\* CapReached with ">" in place of ">="
CapReached_OffByOne(att, c) == att > c.REQUEST_CAP

\* "if attempts >= REQUEST_CAP"
CapReached(att, c) == att >= c.REQUEST_CAP

\* AfterLoop without the check that ends the search-term loop
AfterLoop_NextTerm(att, eo) == Goto("term_start", termIdx + 1)

\* after the candidate loop of a term: stop the run or go to the next term
AfterLoop(att, eo) ==
    IF CapReached(att, cfg) \/ (variant = "s3" /\ eo)
    THEN Goto("final", termIdx)
    ELSE Goto("term_start", termIdx + 1)

\* SkipTerm with "break" in place of "continue"
SkipTerm_Break == Goto("final", termIdx)

\* SkipTerm that starts the same search term again
SkipTerm_Retry == Goto("term_start", termIdx)

\* "except Exception ... continue" of the search-term loop
SkipTerm == Goto("term_start", termIdx + 1)

\* what a run reports when it ends: the status code of the s3 script's
\* response or the kind of the last message of the local scripts, and the
\* row count it carries
Report(status, count) == [status |-> status, count |-> count]

NoReport == Report("none", 0)

\* the credential check and the session handshake
StartRun ==
    /\ pc = "start"
    /\ \E tok \in {"ok", "no_token", "session_error"} :
         /\ pc' = IF tok = "ok" THEN "term_start" ELSE "done"
         /\ outcome' = IF tok = "ok" THEN outcome
                       ELSE IF tok = "no_token"
                       THEN Report(IF variant = "s3" THEN "400"
                                   ELSE "no_token", 0)
                       ELSE Report(IF variant = "s3" THEN "500"
                                   ELSE "crash", 0)
    /\ calls' = {}
    /\ UNCHANGED <<rankVars, partial_write>>
    /\ UNCHANGED paceVars
    /\ UNCHANGED <<variant, cfg, start_ids, termIdx, cur, row, attempts,
                   videos_processed, rows, elapsed_time_over, timeUp, thumbs,
                   pulled, seen, term_rows, total_processed, mergeVars>>

\* top of "for search_term in SEARCH_TERMS"
TermStart ==
    /\ pc = "term_start"
    /\ LET more == termIdx <= Len(SEARCH_TERMS(variant))
           over == variant = "s3" /\ timeUp
       IN  /\ pc' = IF more /\ ~over THEN "pull" ELSE "final"
           /\ elapsed_time_over' =
                  IF more /\ variant = "s3" THEN timeUp ELSE elapsed_time_over
           /\ videos_processed' = IF more /\ ~over THEN 0 ELSE videos_processed
           /\ term_rows' = IF more /\ ~over THEN 0 ELSE term_rows
    /\ cur' = NoVideo
    /\ row' = NoRow
    /\ calls' = {}
    /\ UNCHANGED <<rankVars, partial_write>>
    /\ UNCHANGED paceVars
    /\ UNCHANGED <<variant, cfg, start_ids, termIdx, attempts, rows, timeUp,
                   thumbs, outcome, pulled, seen, total_processed, mergeVars>>

\* "if attempts % 20 == 0: await asyncio.sleep(10)" of the local scripts
\* (the s3 script has no longer pause)
TakesLongPause(v, att) == v # "s3" /\ att % LongPauseEvery = 0

\* the attempt counter moved to a multiple of LongPauseEvery
ReachesPauseCount(att, att1) == att1 # att /\ att1 % LongPauseEvery = 0

\* the deadline check or the cap check at the head of the candidate loop
\* breaks out of the loop
StopsAtHead == (variant = "s3" /\ timeUp) \/ CapReached(attempts, cfg)

\* the head of the candidate loop once the feed has yielded video: deadline
\* check, cap check, attempts += 1, timestamp filter, metadata extraction
\* (m = "keyerror": the metadata lacks a field the row reads with
\* stats["..."], such as the view, like, share or comment count)
PullStep(video, m) ==
    IF variant = "s3" /\ timeUp
    THEN [to |-> AfterLoop(attempts, TRUE), attempts |-> attempts,
          eo |-> TRUE, cur |-> NoVideo]
    ELSE LET eo == IF variant = "s3" THEN FALSE ELSE elapsed_time_over
         IN  IF CapReached(attempts, cfg)
             THEN [to |-> AfterLoop(attempts, eo), attempts |-> attempts,
                   eo |-> eo, cur |-> NoVideo]
             ELSE IF ~PassesTimestampFilter(variant, video)
             THEN [to |-> Goto("pull", termIdx), attempts |-> attempts + 1,
                   eo |-> eo, cur |-> NoVideo]
             ELSE IF m = "keyerror"
             THEN [to |-> SkipTerm, attempts |-> attempts + 1,
                   eo |-> eo, cur |-> NoVideo]
             ELSE [to |-> Goto("thumb", termIdx), attempts |-> attempts + 1,
                   eo |-> eo, cur |-> video]

\* "async for video in tag.videos(...)": await the next video of the feed
Pull ==
    /\ pc = "pull"
    /\ \E o \in FeedOutcomes(variant, cfg) :
       \E video \in (IF o = "yield" /\ ~StopsAtHead THEN Candidates
                     ELSE {NoVideo}) :
       \E m \in (IF video # NoVideo /\ PassesTimestampFilter(variant, video)
                 THEN {"ok", "keyerror"} ELSE {"ok"}) :
         LET s == IF o = "yield" THEN PullStep(video, m)
                  ELSE IF o = "exhausted"
                  THEN [to |-> AfterLoop(attempts, elapsed_time_over),
                        attempts |-> attempts, eo |-> elapsed_time_over,
                        cur |-> NoVideo]
                  ELSE [to |-> SkipTerm, attempts |-> attempts,
                        eo |-> elapsed_time_over, cur |-> NoVideo]
         IN  /\ pc' = s.to.pc
             /\ termIdx' = s.to.termIdx
             /\ attempts' = s.attempts
             /\ elapsed_time_over' = s.eo
             /\ cur' = s.cur
             /\ pulled' = IF o = "yield" THEN pulled + 1 ELSE pulled
             /\ calls' = IF o = "yield"
                         THEN {"feed", "candidate"}
                              \cup (IF m = "keyerror" THEN {"missing_stat"}
                                    ELSE {})
                         ELSE IF o = "raise" THEN {"feed", "feed_error"}
                         ELSE {"feed"}
    /\ row' = NoRow
    /\ UNCHANGED <<rankVars, partial_write>>
    /\ pause_due' = (pause_due \/ ReachesPauseCount(attempts, attempts'))
    /\ UNCHANGED paced
    /\ UNCHANGED <<variant, cfg, start_ids, videos_processed, rows, timeUp,
                   thumbs, outcome, seen, term_rows, total_processed,
                   mergeVars>>

\* what the existence check of the thumbnail store can do
ExistsOutcomes(v) ==
    IF v = "s3" THEN {"answer", "client_error", "exception"} ELSE {"answer"}

\* check_s3_object_exists(key) / thumb_path.exists(): any ClientError other
\* than 404 also answers False
CheckS3ObjectExists(th, id, h) == h = "answer" /\ id \in th

\* what fetching and storing the cover image can do
CoverOutcomes(v) ==
    IF v = "legacy" THEN {"fetch_error", "save_failed", "saved"}
    ELSE {"no_url", "fetch_error", "bad_status", "save_failed", "saved"}

\* the thumbnail step for the current candidate
ThumbStep(h, t) ==
    IF h = "exception"
    THEN [to |-> SkipTerm, thumbs |-> thumbs, calls |-> {"exists"}]
    ELSE IF CheckS3ObjectExists(thumbs, cur.id, h)
    THEN [to |-> Goto("comments", termIdx), thumbs |-> thumbs,
          calls |-> {"exists"}]
    ELSE IF t = "no_url"
    THEN [to |-> Goto("pull", termIdx), thumbs |-> thumbs,
          calls |-> {"exists"}]
    ELSE IF t = "fetch_error"
    THEN [to |-> Goto("pull", termIdx), thumbs |-> thumbs,
          calls |-> {"exists", "cover"}]
    ELSE IF t = "bad_status"
    THEN [to |-> IF variant = "s3" THEN Goto("pull", termIdx)
                 ELSE Goto("comments", termIdx),
          thumbs |-> thumbs, calls |-> {"exists", "cover"}]
    ELSE IF t = "save_failed"
    THEN [to |-> Goto("pull", termIdx), thumbs |-> thumbs,
          calls |-> {"exists", "cover", "normalize"}]
    ELSE [to |-> Goto("comments", termIdx),
          thumbs |-> thumbs \cup {cur.id},
          calls |-> {"exists", "cover", "normalize", "put_thumb"}]

Thumbnail ==
    /\ pc = "thumb"
    /\ \E h \in ExistsOutcomes(variant) :
       \E t \in (IF h # "exception" /\ ~CheckS3ObjectExists(thumbs, cur.id, h)
                 THEN CoverOutcomes(variant) ELSE {"saved"}) :
         LET s == ThumbStep(h, t)
         IN  /\ pc' = s.to.pc
             /\ termIdx' = s.to.termIdx
             /\ thumbs' = s.thumbs
             /\ calls' = s.calls
    /\ UNCHANGED <<rankVars, partial_write>>
    /\ UNCHANGED paceVars
    /\ UNCHANGED <<variant, cfg, start_ids, cur, row, attempts,
                   videos_processed,
                   rows, elapsed_time_over, timeUp, outcome, pulled, seen,
                   term_rows, total_processed, mergeVars>>

\* whether the comment page of the candidate is fetched
FetchesComments(v, video) == v = "legacy" \/ video.comment_count > 0

\* row["top_comments"] of the candidate
TopComments(v, video, feed) ==
    IF ~FetchesComments(v, video) THEN <<>>
    ELSE IF v = "legacy" THEN FetchTopCommentsLegacy(feed, TopN)
    ELSE FetchTopComments(feed, TopN)

\* FlushesBatch with ">" in place of ">="
FlushesBatch_Late(v, c, rs) == v = "s3" /\ Len(rs) > c.BATCH_SIZE

\* whether the batch is flushed after a row was appended
FlushesBatch(v, c, rs) == v = "s3" /\ Len(rs) >= c.BATCH_SIZE

\* whether the per-term target stops the term after a row was appended
TargetReached(v, c, vp) == v # "legacy" /\ vp >= c.VIDEOS_PER_TAG

\* the comment step and the emission of the row: top comments, rows.append,
\* the counters, the periodic flush and the per-term target
EmitRow ==
    /\ pc = "comments"
    /\ \E feed \in (IF FetchesComments(variant, cur) THEN WalkerCommentFeeds
                    ELSE {NoFeed}) :
       \E lo \in (IF FlushesBatch(variant, cfg, Append(rows, NoRow))
                  THEN MergeLoadOutcomes(variant) ELSE {"ok"}) :
       \E wo \in (IF FlushesBatch(variant, cfg, Append(rows, NoRow))
                  THEN WriteOutcomes ELSE {"ok"}) :
         LET row1 == Row(cur.id, TopComments(variant, cur, feed))
             rows1 == Append(rows, row1)
             vp1 == IF variant = "legacy" THEN videos_processed
                    ELSE videos_processed + 1
             flush == FlushesBatch(variant, cfg, rows1)
             to == IF TargetReached(variant, cfg, vp1)
                   THEN AfterLoop(attempts, elapsed_time_over)
                   ELSE Goto("sleep", termIdx)
         IN  /\ row' = row1
             /\ rows' = IF flush THEN <<>> ELSE rows1
             /\ IF flush THEN DoMerge(rows1, lo, wo) ELSE UNCHANGED mergeVars
             /\ videos_processed' = vp1
             /\ pc' = to.pc
             /\ termIdx' = to.termIdx
             /\ calls' = {"row"}
                    \cup (IF FetchesComments(variant, cur) THEN {"comments"}
                          ELSE {})
                    \cup (IF FetchesComments(variant, cur) /\ feed.raises
                          THEN {"comments_error"} ELSE {})
                    \cup (IF flush
                          THEN Merge(variant, table, rows1, lo, wo).calls
                          ELSE {})
    /\ seen' = seen \cup {cur.id}
    /\ term_rows' = term_rows + 1
    /\ total_processed' = total_processed + 1
    /\ cur' = NoVideo
    /\ UNCHANGED <<rankVars, partial_write>>
    /\ paced' = FALSE
    /\ UNCHANGED pause_due
    /\ UNCHANGED <<variant, cfg, start_ids, attempts, elapsed_time_over,
                   timeUp, thumbs, outcome, pulled>>

\* the pacing delay, and the longer pause of the local scripts
Sleep ==
    /\ pc = "sleep"
    /\ pc' = "pull"
    /\ cur' = NoVideo
    /\ row' = NoRow
    /\ calls' = {"sleep"}
           \cup (IF TakesLongPause(variant, attempts) THEN {"long_sleep"}
                 ELSE {})
    /\ UNCHANGED <<rankVars, partial_write>>
    /\ paced' = TRUE
    /\ pause_due' = (pause_due /\ ~TakesLongPause(variant, attempts))
    /\ UNCHANGED <<variant, cfg, start_ids, termIdx, attempts,
                   videos_processed, rows, elapsed_time_over, timeUp, thumbs,
                   outcome, pulled, seen, term_rows, total_processed,
                   mergeVars>>

\* FinalOutcome of a script that reports the rows as saved whether or not
\* there are any
FinalOutcome_AlwaysSaved(v, rs, res, tp) ==
    IF v = "s3" THEN Report("200", 1)
    ELSE IF rs # <<>> /\ res.raised THEN Report("crash", 0)
    ELSE Report("saved", Len(rs))

\* what the run reports after its last merge: the s3 script returns status
\* 200 with 'videos_processed': total_processed; the local scripts print
\* "Saved/Created ... rows" or "No matching videos found", or die in the merge
FinalOutcome(v, rs, res, tp) ==
    IF v = "s3" THEN Report("200", tp)
    ELSE IF rs = <<>> THEN Report("no_matching", 0)
    ELSE IF res.raised THEN Report("crash", 0)
    ELSE Report("saved", Len(rs))

\* SavesRemainingRows with the final save left out
SavesRemainingRows_Never(rs) == FALSE

\* "if rows:" before the last merge of the run
SavesRemainingRows(rs) == rs # <<>>

\* the end of the run: the remaining rows are merged and the run returns
Final ==
    /\ pc = "final"
    /\ \E lo \in (IF SavesRemainingRows(rows) THEN MergeLoadOutcomes(variant)
                  ELSE {"ok"}) :
       \E wo \in (IF SavesRemainingRows(rows) THEN WriteOutcomes ELSE {"ok"}) :
         LET res == Merge(variant, table, rows, lo, wo)
         IN  /\ IF SavesRemainingRows(rows) THEN DoMerge(rows, lo, wo)
                ELSE UNCHANGED mergeVars
             /\ outcome' = FinalOutcome(variant, rows, res, total_processed)
             /\ calls' = IF SavesRemainingRows(rows) THEN res.calls ELSE {}
    /\ pc' = "done"
    /\ cur' = NoVideo
    /\ row' = NoRow
    /\ UNCHANGED <<rankVars, partial_write>>
    /\ UNCHANGED paceVars
    /\ UNCHANGED <<variant, cfg, start_ids, termIdx, attempts,
                   videos_processed, rows, elapsed_time_over, timeUp, thumbs,
                   pulled, seen, term_rows, total_processed>>

\* the wall clock passes MAX_EXECUTION_TIME (only the s3 script reads it)
DeadlinePasses ==
    /\ variant = "s3"
    /\ pc # "done"
    /\ ~timeUp
    /\ timeUp' = TRUE
    /\ calls' = {}
    /\ UNCHANGED <<rankVars, partial_write>>
    /\ UNCHANGED paceVars
    /\ UNCHANGED <<variant, cfg, start_ids, pc, termIdx, cur, row, attempts,
                   videos_processed, rows, elapsed_time_over, thumbs, outcome,
                   pulled, seen, term_rows, total_processed, mergeVars>>

\* the storage a run can find: nothing yet, or what an earlier run that
\* collected video A left behind
InitStores ==
    {[table |-> Absent, thumbs |-> {}],
     [table |-> Stored(<<Row("A", <<>>)>>), thumbs |-> {"A"}]}

InitRun ==
    /\ termIdx = 1
    /\ cur = NoVideo
    /\ row = NoRow
    /\ attempts = 0
    /\ videos_processed = 0
    /\ rows = <<>>
    /\ elapsed_time_over = FALSE
    /\ timeUp = FALSE
    /\ outcome = NoReport
    /\ calls = {}
    /\ pulled = 0
    /\ seen = {}
    /\ term_rows = 0
    /\ total_processed = 0
    /\ merges = 0
    /\ handed = 0
    /\ tableBefore = table
    /\ lastBatch = <<>>
    /\ lastLoad = "none"
    /\ lastWrite = "none"
    /\ lastReturn = 0
    /\ repeated = FALSE
    /\ start_ids = IdsOf(table.rows)
    /\ video_comments = NoFeed
    /\ want_n = TopN
    /\ ranked = <<>>
    /\ partial_write = FALSE
    /\ paced = TRUE
    /\ pause_due = FALSE

Init ==
    /\ variant \in Variants
    /\ cfg \in Configs(variant)
    /\ \E st \in InitStores : table = st.table /\ thumbs = st.thumbs
    /\ pc = "start"
    /\ InitRun

Next ==
    \/ StartRun
    \/ TermStart
    \/ Pull
    \/ Thumbnail
    \/ EmitRow
    \/ Sleep
    \/ Final
    \/ DeadlinePasses

Spec == Init /\ [][Next]_vars

\* the steps the collector itself takes; each await of the run returns
\* (the feed yields, ends or raises; a request answers or fails), so a step
\* that can be taken is eventually taken
WalkerStep ==
    StartRun \/ TermStart \/ Pull \/ Thumbnail \/ EmitRow \/ Sleep \/ Final

SpecFair == Spec /\ WF_vars(WalkerStep)

\* ------------------------------------------- merges on arbitrary batches
\* a batch of rows with the given ids, every row with its own content
BatchOf(ids) == [i \in DOMAIN ids |-> Row(ids[i], <<i>>)]

Batches == {BatchOf(ids) : ids \in SeqsUpTo(Ids, MaxBatch) \ {<<>>}}

\* the duplicate-free tables a sequence of merges starts from
InitTables ==
    {Absent} \cup
    {Stored([i \in DOMAIN ids |-> Row(ids[i], <<>>)]) :
        ids \in {s \in SeqsUpTo(Ids, MaxTable) \ {<<>>} :
                    \A i, j \in DOMAIN s : s[i] = s[j] => i = j}}

InitMerge ==
    /\ variant \in {"s3", "local"}
    /\ cfg = [REQUEST_CAP |-> 1, VIDEOS_PER_TAG |-> 1, BATCH_SIZE |-> 1]
    /\ table \in InitTables
    /\ thumbs = {}
    /\ pc = "merging"
    /\ InitRun

\* save_batch_to_s3 invoked on a batch
SaveBatchToS3Call ==
    /\ pc = "merging"
    /\ variant = "s3"
    /\ merges < MaxMerges
    /\ \E b \in Batches : \E lo \in LoadOutcomes : \E wo \in WriteOutcomes :
         /\ DoMergeRecorded(b, lo, wo)
         /\ calls' = Merge(variant, table, b, lo, wo).calls
    /\ UNCHANGED <<rankVars, partial_write>>
    /\ UNCHANGED paceVars
    /\ UNCHANGED <<variant, cfg, start_ids, pc, termIdx, cur, row, attempts,
                   videos_processed, rows, elapsed_time_over, timeUp, thumbs,
                   outcome, pulled, seen, term_rows, total_processed>>

\* the end-of-run merge of the local script invoked on the rows of a run
MainMergeCall ==
    /\ pc = "merging"
    /\ variant = "local"
    /\ merges < MaxMerges
    /\ ~partial_write
    /\ \E b \in Batches : \E lo \in MergeLoadOutcomes("local") :
       \E wo \in WriteOutcomes :
         /\ DoMergeRecorded(b, lo, wo)
         /\ calls' = Merge(variant, table, b, lo, wo).calls
         /\ partial_write' = WritesInPlace(variant, table, b, lo, wo)
    /\ UNCHANGED <<rankVars, paceVars>>
    /\ UNCHANGED <<variant, cfg, start_ids, pc, termIdx, cur, row, attempts,
                   videos_processed, rows, elapsed_time_over, timeUp, thumbs,
                   outcome, pulled, seen, term_rows, total_processed>>

\* to_parquet has written the whole file and closes it
ToParquetCompletes ==
    /\ pc = "merging"
    /\ partial_write
    /\ partial_write' = FALSE
    /\ UNCHANGED <<variant, cfg, start_ids, walkerVars, mergeVars, rankVars,
                   paceVars>>

NextMerge == SaveBatchToS3Call \/ MainMergeCall \/ ToParquetCompletes

SpecMerge == InitMerge /\ [][NextMerge]_vars

\* ------------------------------------------ the ranker on arbitrary feeds
\* fetch_top_comments of the script
Ranker(v, feed, k) ==
    IF v = "legacy" THEN FetchTopCommentsLegacy(feed, k)
    ELSE FetchTopComments(feed, k)

CommentFeeds == [items : SeqsUpTo(Comments, MaxComments), raises : BOOLEAN]

InitRank ==
    /\ variant \in Variants
    /\ cfg = [REQUEST_CAP |-> 1, VIDEOS_PER_TAG |-> 1, BATCH_SIZE |-> 1]
    /\ table = Absent
    /\ thumbs = {}
    /\ pc = "ranking"
    /\ termIdx = 1
    /\ cur = NoVideo
    /\ row = NoRow
    /\ attempts = 0
    /\ videos_processed = 0
    /\ rows = <<>>
    /\ elapsed_time_over = FALSE
    /\ timeUp = FALSE
    /\ outcome = NoReport
    /\ calls = {}
    /\ pulled = 0
    /\ seen = {}
    /\ term_rows = 0
    /\ total_processed = 0
    /\ merges = 0
    /\ handed = 0
    /\ tableBefore = table
    /\ lastBatch = <<>>
    /\ lastLoad = "none"
    /\ lastWrite = "none"
    /\ lastReturn = 0
    /\ repeated = FALSE
    /\ start_ids = {}
    /\ video_comments \in CommentFeeds
    /\ want_n \in 0..MaxN
    /\ ranked = <<>>
    /\ partial_write = FALSE
    /\ paced = TRUE
    /\ pause_due = FALSE

\* fetch_top_comments(video, n) invoked on a feed
FetchTopCommentsCall ==
    /\ pc = "ranking"
    /\ pc' = "ranked"
    /\ ranked' = Ranker(variant, video_comments, want_n)
    /\ calls' = {"comments"}
    /\ UNCHANGED <<variant, cfg, start_ids, termIdx, cur, row, attempts,
                   videos_processed, rows, elapsed_time_over, timeUp, thumbs,
                   outcome, pulled, seen, term_rows, total_processed,
                   mergeVars, video_comments, want_n, partial_write,
                   paceVars>>

NextRank == FetchTopCommentsCall

SpecRank == InitRank /\ [][NextRank]_vars

\* ================================================================= claims
\* the cutoff of the recency policy (the s3 script defines none: the rolling
\* one-year cutoff of the local script is taken)
RecencyCutoff(v) == IF v = "legacy" THEN TARGET_START ELSE ONE_YEAR_AGO

\* the first row of rs with the given id
FirstWithId(rs, id) ==
    rs[CHOOSE i \in DOMAIN rs :
          /\ rs[i].video_id = id
          /\ \A j \in 1..(i - 1) : rs[j].video_id # id]

RowsWithId(rs, id) == SelectSeq(rs, LAMBDA r : r.video_id = id)

\* the last merge met no storage fault
LastMergeServed ==
    merges >= 1 /\ lastLoad \in {"ok", "none"} /\ lastWrite \in {"ok", "none"}

\* what enrichment does for a candidate
Enrichment == {"cover", "normalize", "put_thumb", "comments", "row"}

\* C1: after any sequence of merges that starts from an absent or
\* duplicate-free table, no two rows of the persisted table share a video_id.
C1_NoDuplicateVideoIds == NoDuplicateIds(table.rows)

\* C2: the walker pulls at most REQUEST_CAP candidates from the feed during
\* the run, and every pulled candidate increments the attempt counter (a
\* candidate pulled after the deadline has passed is left aside here).
C2_PullsWithinCap ==
    /\ pulled <= cfg.REQUEST_CAP
    /\ ~timeUp => pulled = attempts

\* C3: the persisted table is append-only: whatever the load and the write
\* do, the rows that were in the table before a merge are still there after
\* it, in the same order, followed by the new rows.
C3_AppendOnly == IsPrefix(tableBefore.rows, table.rows)

\* C4: when a batch holds several rows with the same id that is not yet in
\* the table, the merge appends only the first of them.
C4_FirstOccurrenceWins ==
    (LastMergeServed /\ lastWrite = "ok") =>
        \A id \in IdsOf(lastBatch) \ IdsOf(tableBefore.rows) :
            RowsWithId(table.rows, id) = <<FirstWithId(lastBatch, id)>>

\* C5: merging is idempotent: merging a batch into a table and then merging
\* the same batch again leaves the table that merging it once left.
C5_MergeIdempotent == repeated => table = tableBefore

\* C5 witness: a batch with a row the table did not hold was merged twice.
C5_Witness ==
    /\ repeated
    /\ table.exists
    /\ \E i \in DOMAIN lastBatch :
         \E j \in DOMAIN table.rows : table.rows[j] = lastBatch[i]

\* C6: the rows emitted while processing a term never exceed VIDEOS_PER_TAG,
\* and no candidate of the term is pulled once the target is reached.
C6_PerTermTarget ==
    /\ term_rows <= cfg.VIDEOS_PER_TAG
    /\ "candidate" \in calls => term_rows < cfg.VIDEOS_PER_TAG

\* C7: no thumbnail fetch, no comment fetch and no row for a candidate whose
\* creation timestamp is strictly older than the recency cutoff.
C7_NoEnrichmentOfOldCandidates ==
    [][(calls' \cap Enrichment # {} /\ cur # NoVideo)
          => ~(cur.posted_ts < RecencyCutoff(variant))]_vars

\* C8: a candidate whose id was accepted earlier in the run, or is in the
\* persisted table at run start, is rejected before enrichment: no thumbnail
\* fetch, no comment fetch and no row for it.
C8_KnownIdsRejected ==
    [][(calls' \cap Enrichment # {} /\ cur # NoVideo)
          => cur.id \notin (seen \cup start_ids)]_vars

\* C9: for an accepted candidate with comment_count = 0 the comment
\* collaborator is never called and the row has an empty top_comments list.
C9_NoCommentFetchWithoutComments ==
    [][("row" \in calls' /\ cur.comment_count = 0)
          => ("comments" \notin calls' /\ row'.top_comments = <<>>)]_vars

\* C10: if a thumbnail artifact exists for the candidate's id, neither the
\* cover fetch nor the normalizer is invoked and the artifact is not rewritten.
C10_ExistingThumbnailKept ==
    [][(pc = "thumb" /\ cur.id \in thumbs)
          => calls' \cap {"cover", "normalize", "put_thumb"} = {}]_vars

\* C11: when the cover fetch of a candidate without a stored thumbnail fails
\* (transport, non-success status, decode or store), no row is emitted for
\* it, its attempt stays counted and the walker goes on to the next candidate
\* of the term; every emitted row refers to a thumbnail artifact that exists.
C11_FailedCoverDropsRow ==
    [][/\ (pc = "thumb" /\ "cover" \in calls' /\ cur.id \notin thumbs')
            => (pc' = "pull" /\ termIdx' = termIdx /\ attempts' = attempts)
       /\ "row" \in calls' => row'.video_id \in thumbs']_vars

\* C12: for an accepted candidate with comment_count > 0, an error while
\* fetching the comment page still results in a row for that candidate, and
\* the row's top_comments is the empty list.
C12_CommentErrorGivesEmptyList ==
    [][(pc = "comments" /\ cur.comment_count > 0
            /\ "comments_error" \in calls')
          => /\ "row" \in calls'
             /\ row'.video_id = cur.id
             /\ row'.top_comments = <<>>]_vars

\* the feed yields well-formed (score, text) pairs and then ends
WellFormed(feed) ==
    ~feed.raises /\ \A i \in DOMAIN feed.items : feed.items[i].ok

Min(a, b) == IF a < b THEN a ELSE b

\* out is the texts of distinct records of items, taken by non-increasing
\* score, none of the records left out scoring higher than one taken
IsTopByScore(out, items) ==
    \E f \in [DOMAIN out -> DOMAIN items] :
        /\ \A i, j \in DOMAIN out : f[i] = f[j] => i = j
        /\ \A i \in DOMAIN out : out[i] = items[f[i]].text
        /\ \A i, j \in DOMAIN out :
              i < j => items[f[i]].score >= items[f[j]].score
        /\ \A j \in DOMAIN items :
              (\A i \in DOMAIN out : f[i] # j)
                  => \A i \in DOMAIN out : items[j].score <= items[f[i]].score

\* C13: for a feed that yields M well-formed (score, text) pairs and a target
\* K, fetch_top_comments returns exactly min(M, K) texts, by non-increasing
\* score, and they are texts of the K highest-scored pairs of the input.
C13_TopKByScore ==
    (pc = "ranked" /\ WellFormed(video_comments)) =>
        /\ Len(ranked) = Min(Len(video_comments.items), want_n)
        /\ IsTopByScore(ranked, video_comments.items)

\* C13 witness: a feed of more pairs than asked for, with different scores,
\* the lower-scored one yielded first, has been ranked.
C13_Witness ==
    /\ pc = "ranked"
    /\ WellFormed(video_comments)
    /\ want_n >= 1
    /\ Len(video_comments.items) > want_n
    /\ video_comments.items[1].score < video_comments.items[2].score
    /\ Len(ranked) = want_n

\* C14: however a run stops (attempt cap, per-term target, deadline, feed
\* exhausted, a term's feed raising), every row emitted during the run has
\* been handed to a merge invocation when the run returns.
C14_AllRowsHandedToMerge == pc = "done" => handed = total_processed

\* C14 witness: a run returned after handing rows to a merge during the run
\* and the remaining rows to its last merge.
C14_Witness ==
    /\ pc = "done"
    /\ rows # <<>>
    /\ merges >= 2
    /\ total_processed > Len(rows)

\* the suspension points of the walker: feed pull, cover-image fetch,
\* comment-page fetch, pacing delay
SuspensionPoints == {"feed", "cover", "comments", "sleep"}

\* C15: once the wall-clock deadline has passed, the walker begins no further
\* feed pull, cover-image fetch or comment-page fetch and no further pacing
\* delay.
C15_NoRemoteCallAfterDeadline ==
    [][timeUp => calls' \cap SuspensionPoints = {}]_vars

\* every row of the batch handed to the last merge had an id that was in the
\* persisted table
BatchAlreadyPersisted ==
    /\ merges >= 1
    /\ lastBatch # <<>>
    /\ IdsOf(lastBatch) \subseteq IdsOf(tableBefore.rows)

\* C16: when every row of the incoming batch has an id already in the
\* persisted table, the merge performs no write, the table is unchanged and
\* the returned count is the row count of the existing table.
C16_NothingNewNoWrite ==
    BatchAlreadyPersisted =>
        /\ lastWrite = "none"
        /\ table = tableBefore
        /\ lastReturn = Len(tableBefore.rows)

\* C16 restricted to the merges whose load was answered by the storage
C16_ServedLoad ==
    (BatchAlreadyPersisted /\ lastLoad = "ok") =>
        /\ lastWrite = "none"
        /\ table = tableBefore
        /\ lastReturn = Len(tableBefore.rows)

\* C17: on every path of save_batch_to_s3 the returned number is the row
\* count of the persisted table as it stands after the call, and a failed
\* write leaves the persisted table as it was before the call.
C17_ReturnIsPersistedCount ==
    (variant = "s3" /\ merges >= 1) =>
        /\ lastReturn = Len(table.rows)
        /\ lastWrite = "fail" => table = tableBefore

\* what a reader of the persisted table gets at this moment
ReaderView ==
    IF partial_write THEN [complete |-> FALSE, rows |-> <<>>]
    ELSE [complete |-> TRUE, rows |-> table.rows]

\* C18: a reader that runs concurrently with a merge observes the complete
\* table from before the merge or the complete table from after it, never a
\* partially written table.
C18_ReaderSeesCompleteTable == ReaderView.complete

\* how a caller reads the outcome of a run
OutcomeClass(o) ==
    IF o.status \in {"400", "500", "no_token", "crash"} THEN "error"
    ELSE IF o.status = "no_matching" \/ (o.status = "200" /\ o.count = 0)
    THEN "nothing_collected"
    ELSE "collected"

\* C19: a run that emits zero rows ends with an outcome that differs from
\* the outcome of a run that collected rows and from an error outcome: read
\* from the outcome alone, a run that ended without an error collected
\* nothing exactly when it emitted no row.
C19_ZeroRowsOutcomeDistinct ==
    pc = "done" =>
        /\ total_processed = 0 =>
              OutcomeClass(outcome) \in {"nothing_collected", "error"}
        /\ total_processed > 0 =>
              OutcomeClass(outcome) \in {"collected", "error"}
        /\ (total_processed = 0 /\ attempts > 0) =>
              OutcomeClass(outcome) = "nothing_collected"

\* C19 witness: a run that tried candidates and emitted no row has returned.
C19_Witness ==
    /\ pc = "done"
    /\ attempts > 0
    /\ total_processed = 0
    /\ OutcomeClass(outcome) = "nothing_collected"

\* C20: when a search term's feed raises, the rows emitted so far are kept,
\* the rest of the term is skipped and the walker goes on to the next
\* configured search term; the run does not end with an error outcome
\* because of it (a run that got past its first term ends with an error
\* only if its last merge died).
C20_FeedErrorSkipsTerm ==
    /\ [][("feed_error" \in calls' /\ pc = "pull")
             => /\ rows' = rows
                /\ handed' = handed
                /\ total_processed' = total_processed
                /\ pc' = "term_start"
                /\ termIdx' = termIdx + 1
                /\ outcome' = NoReport]_vars
    /\ []((pc = "done" /\ termIdx > 1 /\ OutcomeClass(outcome) = "error")
             => (variant # "s3" /\ outcome.status = "crash" /\ rows # <<>>))

\* C20 witness: the feed of the first term raised after a row was emitted,
\* and the walker stands at the next term with the row in hand.
C20_Witness ==
    /\ pc = "term_start"
    /\ "feed_error" \in calls
    /\ termIdx = 2
    /\ rows # <<>>

\* the run ended before it opened a feed: no credential, or the session
\* handshake failed
FailedAtStart == pulled = 0 /\ termIdx = 1 /\ attempts = 0

\* the run of a local script died in its last merge
DiedInMerge == variant # "s3" /\ outcome.status = "crash" /\ rows # <<>>

\* C21: every run terminates, whatever the feeds do (also feeds that never
\* run out of candidates), and a run that stopped on the cap, a target or
\* the deadline ends with a normal, non-error outcome.
C21_RunTerminates ==
    /\ <>(pc = "done")
    /\ []((pc = "done" /\ OutcomeClass(outcome) = "error")
             => (FailedAtStart \/ DiedInMerge))

\* C21 witness: a run that used up its attempt cap has returned normally.
C21_Witness ==
    /\ pc = "done"
    /\ attempts = cfg.REQUEST_CAP
    /\ pulled > attempts
    /\ OutcomeClass(outcome) # "error"

\* C22: once the walker has stopped pulling because the attempt cap or the
\* deadline was reached, it opens no later search term's feed and pulls no
\* candidate from it; the search terms are taken one at a time in the
\* configured order, a term starting only after the previous one is finished.
C22_NoLaterTermAfterStop ==
    [][/\ (pc = "pull" /\ "candidate" \in calls' /\ StopsAtHead)
            => pc' = "final"
       /\ pc \in {"final", "done"}
            => (pc' \in {"final", "done"} /\ "feed" \notin calls'
                   /\ termIdx' = termIdx)
       /\ termIdx' \in {termIdx, termIdx + 1}
       /\ termIdx' = termIdx + 1 => pc' = "term_start"]_vars

\* C22 witness: the walker broke out of its first term on the cap while a
\* later term was still configured.
C22_Witness ==
    /\ pc = "final"
    /\ "candidate" \in calls
    /\ attempts = cfg.REQUEST_CAP
    /\ termIdx < Len(SEARCH_TERMS(variant))

\* C23: a candidate whose metadata lacks an engagement field is not dropped
\* and does not end the processing of its search term: the walker goes on
\* to enrich it (and emits its row with that field equal to zero).
C23_MissingStatKeepsCandidate ==
    [][("missing_stat" \in calls' /\ pc = "pull")
          => /\ pc' = "thumb"
             /\ cur' # NoVideo
             /\ termIdx' = termIdx]_vars

\* C24: a pacing delay is taken between every two consecutive emitted rows,
\* and a longer pause is taken every time the attempt counter reaches a
\* multiple of LongPauseEvery, whatever the outcome of that attempt: no row
\* is emitted after another without a pacing delay in between, and no
\* further attempt is counted while a longer pause is due.
C24_PacingAndLongPause ==
    [][/\ ("row" \in calls' /\ total_processed >= 1) => paced
       /\ attempts' # attempts => ~pause_due]_vars

\* C24, pacing only
C24_PacingBetweenRows ==
    [][("row" \in calls' /\ total_processed >= 1) => paced]_vars

\* C24, longer pause only
C24_LongPauseEveryN == [][attempts' # attempts => ~pause_due]_vars

\* the well-formed records of a page, in arrival order
WellFormedOf(items) == SelectSeq(items, LAMBDA c : c.ok)

\* the page holds exactly one malformed record and the feed ends normally
OneMalformed(feed) ==
    /\ ~feed.raises
    /\ Len(feed.items) = Len(WellFormedOf(feed.items)) + 1

\* C25: a single malformed comment record, first of the page or later, is
\* skipped and the remaining well-formed comments are ranked and returned.
C25_MalformedRecordSkipped ==
    (pc = "ranked" /\ OneMalformed(video_comments)) =>
        /\ Len(ranked) = Min(Len(WellFormedOf(video_comments.items)), want_n)
        /\ IsTopByScore(ranked, WellFormedOf(video_comments.items))

\* no two records of the page carry the same text
DistinctTexts(items) ==
    \A i, j \in DOMAIN items : items[i].text = items[j].text => i = j

\* t is returned, and Pos(out, t) is where
Returned(out, t) == \E k \in DOMAIN out : out[k] = t

Pos(out, t) == CHOOSE k \in DOMAIN out : out[k] = t

\* a page of well-formed records with distinct texts has been ranked
RankedDistinct ==
    /\ pc = "ranked"
    /\ WellFormed(video_comments)
    /\ DistinctTexts(video_comments.items)

\* C26: comments with equal engagement score appear in the output in the
\* order in which they arrived from the feed.
C26_TiesByArrivalOrder ==
    RankedDistinct =>
        \A i, j \in DOMAIN video_comments.items :
            LET a == video_comments.items[i]
                b == video_comments.items[j]
            IN  (i < j /\ a.score = b.score
                    /\ Returned(ranked, a.text) /\ Returned(ranked, b.text))
                  => Pos(ranked, a.text) < Pos(ranked, b.text)

\* C26 as amended: comments with equal engagement score appear in the
\* output in descending order of their text, whatever their arrival order.
C26_TiesByDescendingText ==
    RankedDistinct =>
        \A i, j \in DOMAIN video_comments.items :
            LET a == video_comments.items[i]
                b == video_comments.items[j]
            IN  (a.score = b.score /\ a.text > b.text
                    /\ Returned(ranked, a.text) /\ Returned(ranked, b.text))
                  => Pos(ranked, a.text) < Pos(ranked, b.text)

\* C26 witness: two comments of equal score, the one with the smaller text
\* arriving first, were both returned.
C26_Witness ==
    /\ RankedDistinct
    /\ Len(video_comments.items) = 2
    /\ video_comments.items[1].score = video_comments.items[2].score
    /\ video_comments.items[1].text < video_comments.items[2].text
    /\ Len(ranked) = 2

\* C27: in every state of a run the attempt counter is between 0 and the
\* attempt cap, it never decreases, and it is not reset when the walker moves
\* to the next search term.
C27_AttemptsWithinCap ==
    [][/\ 0 <= attempts /\ attempts <= cfg.REQUEST_CAP
       /\ 0 <= attempts' /\ attempts' <= cfg.REQUEST_CAP
       /\ attempts' >= attempts
       /\ (termIdx' # termIdx /\ attempts' = 0) => attempts = 0]_vars

\* C27 witness: the counter, carried over from the first search term,
\* reached the cap on a candidate of the second.
C27_Witness ==
    /\ termIdx = 2
    /\ pc = "thumb"
    /\ cfg.REQUEST_CAP >= 2
    /\ attempts = cfg.REQUEST_CAP

\* the rows of the run that are still to be handed to a merge
RowsInHand == IF pc = "done" THEN 0 ELSE Len(rows)

\* C28: in the batched (S3) collector, whenever the walker pulls a candidate
\* the in-memory batch holds fewer than BATCH_SIZE rows; a periodic flush
\* happens exactly when the batch reaches BATCH_SIZE rows and leaves the
\* batch empty whether or not the write succeeded; each emitted row is
\* handed to the merger at most once.
C28_BatchBelowSizeAtPull ==
    [][variant = "s3" =>
         /\ "candidate" \in calls' => Len(rows) < cfg.BATCH_SIZE
         /\ "row" \in calls' =>
               /\ (merges' = merges + 1) <=> (Len(rows) + 1 = cfg.BATCH_SIZE)
               /\ merges' = merges + 1 => rows' = <<>>
               /\ merges' = merges => rows' = Append(rows, row')
         /\ handed + RowsInHand = total_processed
         /\ handed' + RowsInHand' = total_processed']_vars

\* C28 witness: a batch of two rows was flushed, the write did not bring its
\* last row into the table, and the batch is empty.
C28_Witness ==
    /\ variant = "s3"
    /\ cfg.BATCH_SIZE = 2
    /\ "row" \in calls
    /\ "write" \in calls
    /\ rows = <<>>
    /\ row.video_id \notin IdsOf(table.rows)

====
